---------------------------- MODULE Spec2Model ----------------------------
(***************************************************************************)
(* Model of backend/app/services/hybrid_search.py: the BM25 scorer, the    *)
(* hybrid search engine (semantic + keyword branches, reciprocal-rank      *)
(* fusion, reranking, truncation) and its index; of                        *)
(* backend/app/utils/circuit_breaker.py: the circuit breaker; and of       *)
(* backend/app/agents/enhanced_cag_agent.py: the refine loop.              *)
(*                                                                         *)
(* Spec, FairSpec and SpecTwoCalls are the engine, ScorerSpec a BM25Scorer *)
(* used on its own, MethodSpec the engine's _fuse_results and              *)
(* _rerank_results called on their own, BreakerSpec a CircuitBreaker with  *)
(* concurrent callers, RefineSpec an EnhancedCAGAgent.                     *)
(*                                                                         *)
(* Representation of the Python values:                                    *)
(*  - a str is a sequence of one-character strings;                        *)
(*  - a document's content is [chars, pad]: the characters `chars`         *)
(*    followed by `pad` spaces, so that contents longer than 500 or 2000   *)
(*    characters are states the model can be in;                           *)
(*  - a float is an exact rational [n, d] (d > 0) in lowest terms; np.log  *)
(*    is a fixed-point series, so a BM25 score is a multiple of 1/Scale;   *)
(*  - a dict is a function; `key in dict` is `key \in DOMAIN dict`;        *)
(*  - datetime values are whole days.                                      *)
(***************************************************************************)
EXTENDS Integers, Sequences, FiniteSets, TLC

(***************************************************************************)
(* Bounds of the model.                                                    *)
(***************************************************************************)
MaxK == 2
MaxIndexCalls == 2
MaxCallers == 2
MaxCalls == 5
MaxResets == 1
ClockStep == 30
MaxClock == 90

(***************************************************************************)
(* Program constants.                                                      *)
(***************************************************************************)
\* k1 = 1.5 = K1Num / K1Den, b = 0.75 = BNum / BDen
K1Num == 3
K1Den == 2
BNum == 3
BDen == 4
\* fusion weights, in tenths
SemanticWeightTenths == 5
KeywordWeightTenths == 3
GraphWeightTenths == 2
\* RRF with k=60
RRF_K == 60
\* 20% bonus per source, in hundredths
BonusPerSource == 20
\* rerank factors, in hundredths
TitleMatchBonus == 20
ExactMatchBonus == 30
LengthBonus == 10
ShortContent == 500
LongContent == 2000
RecentDays == 30
RecentBonus == 15
OlderDays == 90
OlderBonus == 5
AdjustmentMin == -30
AdjustmentMax == 50
MinTokenLen == 2

(***************************************************************************)
(* Rationals.                                                              *)
(***************************************************************************)
Abs(x) == IF x < 0 THEN -x ELSE x

RECURSIVE GCD(_, _)
GCD(a, b) == IF b = 0 THEN a ELSE GCD(b, a % b)

\* the rational n/d in lowest terms, d > 0
Frac(n, d) ==
    LET g == GCD(Abs(n), Abs(d))
        s == IF d < 0 THEN -1 ELSE 1
    IN  IF n = 0 THEN [n |-> 0, d |-> 1]
        ELSE [n |-> s * (n \div g), d |-> s * (d \div g)]

FZero == [n |-> 0, d |-> 1]
FAdd(x, y) == Frac(x.n * y.d + y.n * x.d, x.d * y.d)
FMul(x, y) == Frac(x.n * y.n, x.d * y.d)

\* a/b < c/d for a, c >= 0 and b, d > 0, by continued fractions (no products)
RECURSIVE LessQ(_, _, _, _)
LessQ(a, b, c, d) ==
    LET q1 == a \div b
        q2 == c \div d
        r1 == a % b
        r2 == c % d
    IN  IF q1 # q2 THEN q1 < q2
        ELSE IF r2 = 0 THEN FALSE
        ELSE IF r1 = 0 THEN TRUE
        ELSE LessQ(d, r2, b, r1)

FLess(x, y) ==
    IF x.n < 0 /\ y.n >= 0 THEN TRUE
    ELSE IF x.n >= 0 /\ y.n < 0 THEN FALSE
    ELSE IF x.n < 0 THEN LessQ(-y.n, y.d, -x.n, x.d)
    ELSE LessQ(x.n, x.d, y.n, y.d)

FMax(x, y) == IF FLess(x, y) THEN y ELSE x

(***************************************************************************)
(* np.log in fixed point: LnFixed(p, q) is ln(p/q) * Scale for p, q > 0,   *)
(* by ln x = 2 atanh((x-1)/(x+1)) after halving x into [1, 2).             *)
(***************************************************************************)
Scale == 10000

AtanhSeries(p, q) ==
    LET z  == ((p - q) * Scale) \div (p + q)
        z2 == (z * z) \div Scale
        t3 == (z * z2) \div Scale
        t5 == (t3 * z2) \div Scale
        t7 == (t5 * z2) \div Scale
    IN  2 * (z + (t3 \div 3) + (t5 \div 5) + (t7 \div 7))

Ln2Fixed == AtanhSeries(2, 1)

RECURSIVE LnAbove(_, _)
LnAbove(p, q) ==
    IF p >= 2 * q THEN Ln2Fixed + LnAbove(p, 2 * q) ELSE AtanhSeries(p, q)

LnFixed(p, q) == IF p >= q THEN LnAbove(p, q) ELSE -LnAbove(q, p)

(***************************************************************************)
(* Strings.                                                                *)
(***************************************************************************)
UpperToLower == [c \in {"A", "B", "D", "E", "N", "O", "P", "R", "T"} |->
    CASE c = "A" -> "a" [] c = "B" -> "b" [] c = "D" -> "d" [] c = "E" -> "e"
      [] c = "N" -> "n" [] c = "O" -> "o" [] c = "P" -> "p" [] c = "R" -> "r"
      [] c = "T" -> "t"]

LowerChars == {"a", "b", "d", "e", "l", "n", "o", "p", "r", "t", "z", "1"}

\* str.lower()
LowerChar(c) == IF c \in DOMAIN UpperToLower THEN UpperToLower[c] ELSE c
Lower(s) == [i \in 1..Len(s) |-> LowerChar(s[i])]

\* re.sub(r'[^a-z0-9\s]', ' ', text)
Sanitize(s) == [i \in 1..Len(s) |-> IF s[i] \in LowerChars \cup {" "} THEN s[i] ELSE " "]

\* str.split(): the maximal runs of non-whitespace characters, in order
RECURSIVE SplitFrom(_, _, _)
SplitFrom(s, i, cur) ==
    IF i > Len(s) THEN (IF cur = <<>> THEN <<>> ELSE <<cur>>)
    ELSE IF s[i] = " "
         THEN (IF cur = <<>> THEN <<>> ELSE <<cur>>) \o SplitFrom(s, i + 1, <<>>)
         ELSE SplitFrom(s, i + 1, Append(cur, s[i]))

Split(s) == SplitFrom(s, 1, <<>>)

\* BM25Scorer.tokenize
tokenize(text) == SelectSeq(Split(Sanitize(Lower(text))), LAMBDA t : Len(t) > MinTokenLen)

\* needle in hay (substring test)
Contains(hay, needle) ==
    \E i \in 0..(Len(hay) - Len(needle)) :
        \A j \in 1..Len(needle) : hay[i + j] = needle[j]

Spaces(n) == [i \in 1..n |-> " "]

\* len(content)
ContentLen(content) == Len(content.chars) + content.pad

\* needle in content.lower(): only the first Len(needle) characters of the
\* padding can take part in a match that is not already a match without them
ContentContains(content, needle) ==
    LET m == IF content.pad < Len(needle) THEN content.pad ELSE Len(needle)
    IN  Contains(Lower(content.chars) \o Spaces(m), needle)

Range(f) == {f[x] : x \in DOMAIN f}


\* the empty dict
EmptyDict == [x \in {} |-> 0]

\* dict.get(key, default)
Get(dict, key, default) == IF key \in DOMAIN dict THEN dict[key] ELSE default

\* dict[key] = value
Put(dict, key, value) == (key :> value) @@ dict

RECURSIVE SumOver(_, _)
SumOver(f, keys) ==
    IF keys = {} THEN 0
    ELSE LET x == CHOOSE y \in keys : TRUE IN f[x] + SumOver(f, keys \ {x})

\* Counter(tokens)[term]
Count(tokens, term) == Cardinality({i \in 1..Len(tokens) : tokens[i] = term})

\* seq[:k * 2]
TakeTwice(seq, k) == SubSeq(seq, 1, IF 2 * k < Len(seq) THEN 2 * k ELSE Len(seq))

\* seq[:k] for k >= 0
Take(seq, k) == SubSeq(seq, 1, IF k < Len(seq) THEN k ELSE Len(seq))

\* list.sort(key=lambda x: x.score, reverse=True): stable, descending
RECURSIVE InsertDesc(_, _)
InsertDesc(sorted, r) ==
    IF sorted = <<>> THEN <<r>>
    ELSE IF FLess(Head(sorted).score, r.score) THEN <<r>> \o sorted
    ELSE <<Head(sorted)>> \o InsertDesc(Tail(sorted), r)

RECURSIVE SortFrom(_, _, _)
SortFrom(seq, i, acc) ==
    IF i > Len(seq) THEN acc ELSE SortFrom(seq, i + 1, InsertDesc(acc, seq[i]))

SortByScoreDesc(seq) == SortFrom(seq, 1, <<>>)

(***************************************************************************)
(* BM25Scorer.  A scorer is the record of its fields; idf_scores and the   *)
(* value of score are fixed-point numbers (multiples of 1/Scale).          *)
(***************************************************************************)
\* BM25Scorer.__init__
NewScorer ==
    [doc_freqs |-> EmptyDict, doc_lengths |-> EmptyDict, avg_doc_length |-> FZero,
     num_docs |-> 0, idf_scores |-> EmptyDict]

\* one iteration of the loop over the documents: doc_lengths and doc_freqs
IndexOneDoc(bm, doc) ==
    LET tokens == tokenize(doc.content.chars)
        terms  == Range(tokens)
    IN  [bm EXCEPT
            !.doc_lengths = Put(bm.doc_lengths, doc.id, Len(tokens)),
            !.doc_freqs = [t \in DOMAIN bm.doc_freqs \cup terms |->
                              Get(bm.doc_freqs, t, 0) + (IF t \in terms THEN 1 ELSE 0)]]

RECURSIVE IndexLoop(_, _, _)
IndexLoop(bm, documents, i) ==
    IF i > Len(documents) THEN bm
    ELSE IndexLoop(IndexOneDoc(bm, documents[i]), documents, i + 1)

\* all_terms
AllTerms(documents) ==
    UNION {Range(tokenize(documents[i].content.chars)) : i \in 1..Len(documents)}

\* idf = np.log((num_docs - df + 0.5) / (df + 0.5) + 1.0)
\*     = ln((2 num_docs + 2) / (2 df + 1))
Idf(num_docs, df) == LnFixed(2 * num_docs + 2, 2 * df + 1)

\* BM25Scorer.index_documents
index_documents(bm, documents) ==
    LET looped == IndexLoop([bm EXCEPT !.num_docs = Len(documents)], documents, 1)
        avg == IF DOMAIN looped.doc_lengths # {}
               THEN Frac(SumOver(looped.doc_lengths, DOMAIN looped.doc_lengths),
                         Cardinality(DOMAIN looped.doc_lengths))
               ELSE looped.avg_doc_length
        terms == AllTerms(documents)
    IN  [looped EXCEPT
            !.avg_doc_length = avg,
            !.idf_scores = [t \in DOMAIN bm.idf_scores \cup terms |->
                               IF t \in terms
                               THEN Idf(looped.num_docs, Get(looped.doc_freqs, t, 0))
                               ELSE bm.idf_scores[t]]]

\* avg_doc_length without the max: 0 for a scorer that indexed nothing
LengthDivisorUnguarded(bm) == bm.avg_doc_length

\* max(self.avg_doc_length, 1.0), what doc_length is divided by
LengthDivisor(bm) == FMax(bm.avg_doc_length, Frac(1, 1))

\* the denominator of the BM25 formula times K1Den * BDen * mx.n, with
\* max(avg_doc_length, 1.0) = mx.n / mx.d
ScaledDenominator(bm, tf, doc_length) ==
    LET mx == LengthDivisor(bm)
    IN  tf * K1Den * BDen * mx.n
        + K1Num * ((BDen - BNum) * mx.n + BNum * doc_length * mx.d)

\* idf * (numerator / denominator) of the BM25 formula
Contribution(bm, tf, idf, doc_length) ==
    LET mx  == LengthDivisor(bm)
        num == tf * (K1Num + K1Den) * BDen * mx.n
    IN  (idf * num) \div ScaledDenominator(bm, tf, doc_length)

RECURSIVE ScoreLoop(_, _, _, _, _)
ScoreLoop(bm, query_tokens, doc_tokens, doc_length, i) ==
    IF i > Len(query_tokens) THEN 0
    ELSE LET term == query_tokens[i]
             tf   == Count(doc_tokens, term)
         IN  (IF tf > 0
              THEN Contribution(bm, tf, Get(bm.idf_scores, term, 0), doc_length)
              ELSE 0)
             + ScoreLoop(bm, query_tokens, doc_tokens, doc_length, i + 1)

\* BM25Scorer.score
score(bm, query, document) ==
    LET doc_tokens == tokenize(document.content.chars)
        doc_length == Get(bm.doc_lengths, document.id, Len(doc_tokens))
    IN  ScoreLoop(bm, tokenize(query), doc_tokens, doc_length, 1)

\* the SearchResult that search builds for a document
KeywordResult(document, s) ==
    [id |-> document.id, content |-> document.content, score |-> Frac(s, Scale),
     title |-> document.title, metadata |-> document.metadata,
     source |-> "keyword_bm25",
     relevance_factors |-> [f \in {"bm25_score"} |-> Frac(s, Scale)]]

\* the scored documents without the test score > 0
RECURSIVE ScoredDocsUnfiltered(_, _, _, _)
ScoredDocsUnfiltered(bm, query, documents, i) ==
    IF i > Len(documents) THEN <<>>
    ELSE <<KeywordResult(documents[i], score(bm, query, documents[i]))>>
         \o ScoredDocsUnfiltered(bm, query, documents, i + 1)

RECURSIVE ScoredDocs(_, _, _, _)
ScoredDocs(bm, query, documents, i) ==
    IF i > Len(documents) THEN <<>>
    ELSE LET s == score(bm, query, documents[i])
         IN  (IF s > 0 THEN <<KeywordResult(documents[i], s)>> ELSE <<>>)
             \o ScoredDocs(bm, query, documents, i + 1)

\* BM25Scorer.search
search(bm, query, documents, k) ==
    IF documents = <<>> THEN <<>>
    ELSE Take(SortByScoreDesc(ScoredDocs(bm, query, documents, 1)), k)

\* index_documents raises: the one division of the method, by
\* len(self.doc_lengths), is made with no length recorded (np.log does not
\* raise)
IndexRaises(bm, documents) ==
    LET looped == IndexLoop([bm EXCEPT !.num_docs = Len(documents)], documents, 1)
    IN  /\ DOMAIN looped.doc_lengths # {}
        /\ Cardinality(DOMAIN looped.doc_lengths) = 0

\* score raises: for a query token of the document, one of the two divisions
\* of the formula is by zero
ScoreRaises(bm, query, document) ==
    LET query_tokens == tokenize(query)
        doc_tokens == tokenize(document.content.chars)
        doc_length == Get(bm.doc_lengths, document.id, Len(doc_tokens))
    IN  \E i \in 1..Len(query_tokens) :
            LET tf == Count(doc_tokens, query_tokens[i])
            IN  /\ tf > 0
                /\ \/ LengthDivisor(bm).n = 0
                   \/ ScaledDenominator(bm, tf, doc_length) = 0

\* search raises when score does for one of the documents
SearchRaises(bm, query, documents) ==
    \E i \in 1..Len(documents) : ScoreRaises(bm, query, documents[i])

(***************************************************************************)
(* HybridSearchEngine: the pure part of a query.                           *)
(***************************************************************************)
\* the SearchResult that _semantic_search builds for one item of the response
SemanticResult(doc) ==
    [id |-> doc.id, content |-> doc.content, score |-> doc.score,
     title |-> doc.title, metadata |-> doc.metadata, source |-> "semantic",
     relevance_factors |-> [f \in {"semantic_score"} |-> doc.score]]

\* _semantic_search: a branch result is [exc, val], exc when the coroutine
\* ends by raising.  resp is the collaborator's answer: [kind |-> "ok", items],
\* [kind |-> "raise"], or [kind |-> "not_a_list"] for a value the for loop
\* cannot iterate (None) or whose elements have no get (a str): the TypeError
\* or AttributeError is raised inside the try
semantic_search(resp) ==
    IF resp.kind \in {"raise", "not_a_list"}
    THEN [exc |-> FALSE, val |-> <<>>]
    ELSE [exc |-> FALSE,
          val |-> [i \in 1..Len(resp.items) |-> SemanticResult(resp.items[i])]]

\* _keyword_search
keyword_search(engine_bm25, documents, initialized, query, k) ==
    IF ~initialized
    THEN [exc |-> FALSE, val |-> <<>>]
    ELSE [exc |-> FALSE, val |-> search(engine_bm25, query, documents, k)]

\* hybrid_search, "Handle exceptions": what gather(return_exceptions=True)
\* gave for a branch, an exception replaced by []
HandleException(branch) == IF branch.exc THEN <<>> ELSE branch.val

\* a branch that lets the collaborator's exception through to the fusion
semantic_branch_unguarded(resp) ==
    IF resp.kind \in {"raise", "not_a_list"}
    THEN [exc |-> TRUE, val |-> <<>>]
    ELSE [exc |-> FALSE,
          val |-> [i \in 1..Len(resp.items) |-> SemanticResult(resp.items[i])]]

\* the semantic branch as seen after the gather: _semantic_search's own
\* except clause, then the isinstance check of hybrid_search
semantic_branch(resp) ==
    LET r == semantic_search(resp)
    IN  [exc |-> FALSE, val |-> HandleException(r)]

\* the keyword branch as seen after the gather
keyword_branch(engine_bm25, documents, initialized, query, k) ==
    LET r == keyword_search(engine_bm25, documents, initialized, query, k)
    IN  [exc |-> FALSE, val |-> HandleException(r)]

\* the rank counted from 0 (enumerate without its start)
RrfScoreFromZero(rank) == Frac(1, RRF_K + rank - 1)

\* rrf_score = 1.0 / (60 + rank)
RrfScore(rank) == Frac(1, RRF_K + rank)

\* position of id in the insertion-ordered all_results, 0 when absent
RECURSIVE IndexOfId(_, _, _)
IndexOfId(all_results, id, i) ==
    IF i > Len(all_results) THEN 0
    ELSE IF all_results[i].id = id THEN i
    ELSE IndexOfId(all_results, id, i + 1)

\* one iteration of a "Process ... results" loop of _fuse_results
FuseOne(all_results, result, rank, rrf_key, score_key) ==
    LET at == IndexOfId(all_results, result.id, 1)
        base == IF at = 0
                THEN Append(all_results, [result EXCEPT !.relevance_factors = EmptyDict])
                ELSE all_results
        j == IF at = 0 THEN Len(base) ELSE at
    IN  [base EXCEPT ![j].relevance_factors =
            Put(Put(@, rrf_key, RrfScore(rank)), score_key, result.score)]

RECURSIVE FuseLoop(_, _, _, _, _)
FuseLoop(all_results, results, rank, rrf_key, score_key) ==
    IF rank > Len(results) THEN all_results
    ELSE FuseLoop(FuseOne(all_results, results[rank], rank, rrf_key, score_key),
                  results, rank + 1, rrf_key, score_key)

\* "Weighted combination of RRF scores"
FusionScore(factors) ==
    FAdd(FAdd(FMul(Frac(SemanticWeightTenths, 10), Get(factors, "semantic_rrf", FZero)),
              FMul(Frac(KeywordWeightTenths, 10), Get(factors, "keyword_rrf", FZero))),
         FMul(Frac(GraphWeightTenths, 10), Get(factors, "graph_rrf", FZero)))

\* appearance_count
AppearanceCount(factors) ==
    Cardinality({"semantic_rrf", "keyword_rrf", "graph_rrf"} \cap DOMAIN factors)

\* the bonus without its "if appearance_count > 1"
ApplyBonusAlways(fusion_score, appearance_count) ==
    FMul(fusion_score, Frac(100 + BonusPerSource * appearance_count, 100))

\* "Bonus for appearing in multiple result sets"
ApplyBonus(fusion_score, appearance_count) ==
    IF appearance_count > 1
    THEN FMul(fusion_score, Frac(100 + BonusPerSource * appearance_count, 100))
    ELSE fusion_score

\* "Calculate final fusion scores": one iteration
FinalFusion(result) ==
    [result EXCEPT
        !.score = ApplyBonus(FusionScore(result.relevance_factors),
                             AppearanceCount(result.relevance_factors)),
        !.source = "hybrid"]

\* _fuse_results (the graph results are never read)
fuse_results(semantic_results, keyword_results, graph_results) ==
    LET with_semantic == FuseLoop(<<>>, semantic_results, 1,
                                  "semantic_rrf", "semantic_score")
        all_results == FuseLoop(with_semantic, keyword_results, 1,
                                "keyword_rrf", "keyword_score")
    IN  SortByScoreDesc([i \in 1..Len(all_results) |-> FinalFusion(all_results[i])])

\* the four rerank factors of a result, in hundredths; today is datetime.now()
TitleMatch(query, result) ==
    IF \E term \in Range(tokenize(query)) : Contains(Lower(result.title), term)
    THEN TitleMatchBonus ELSE 0

ExactMatch(query, result) ==
    IF ContentContains(result.content, Lower(query)) THEN ExactMatchBonus ELSE 0

LengthFactor(result) ==
    IF ContentLen(result.content) < ShortContent THEN LengthBonus
    ELSE IF ContentLen(result.content) > LongContent THEN -LengthBonus
    ELSE 0

\* "Recency bonus": fromisoformat raising, or datetime.now() (naive) minus an
\* aware datetime raising TypeError, ends in the bare except
Recency(result, today) ==
    IF "timestamp" \in DOMAIN result.metadata
    THEN IF result.metadata["timestamp"].ok /\ ~result.metadata["timestamp"].aware
         THEN LET age_days == today - result.metadata["timestamp"].day
              IN  IF age_days < RecentDays THEN RecentBonus
                  ELSE IF age_days < OlderDays THEN OlderBonus
                  ELSE 0
         ELSE 0
    ELSE 0

RerankFactors(query, result, today) ==
    [title_match |-> TitleMatch(query, result),
     exact_match |-> ExactMatch(query, result),
     length_factor |-> LengthFactor(result),
     recency |-> Recency(result, today)]

\* max(-0.3, rerank_adjustment): the cap forgotten
ClampBelowOnly(x) == IF x < AdjustmentMin THEN AdjustmentMin ELSE x

\* max(-0.3, min(0.5, rerank_adjustment))
Clamp(x) ==
    IF x > AdjustmentMax THEN AdjustmentMax
    ELSE IF x < AdjustmentMin THEN AdjustmentMin ELSE x

\* the body of the loop of _rerank_results
RerankOne(query, result, today) ==
    LET rerank_factors == RerankFactors(query, result, today)
        rerank_adjustment == Clamp(rerank_factors.title_match + rerank_factors.exact_match
                                   + rerank_factors.length_factor + rerank_factors.recency)
    IN  [result EXCEPT
            !.score = FMul(result.score, Frac(100 + rerank_adjustment, 100)),
            !.relevance_factors =
                Put(Put(@, "rerank_adjustment", Frac(rerank_adjustment, 100)),
                    "rerank_factors", rerank_factors)]

\* _rerank_results without "Re-sort after reranking"
rerank_results_unsorted(query, results, today) ==
    [i \in 1..Len(results) |-> RerankOne(query, results[i], today)]

\* _rerank_results
rerank_results(query, results, today) ==
    SortByScoreDesc([i \in 1..Len(results) |-> RerankOne(query, results[i], today)])

(***************************************************************************)
(* The inputs the model draws from.                                        *)
(***************************************************************************)
Text(chars) == [chars |-> chars, pad |-> 0]
Padded(chars, total) == [chars |-> chars, pad |-> total - Len(chars)]
\* metadata with a timestamp: ok when datetime.fromisoformat parses it, aware
\* when the parsed datetime carries a UTC offset ("...+00:00", "...Z")
Timestamp(day) == [timestamp |-> [ok |-> TRUE, aware |-> FALSE, day |-> day]]
AwareTimestamp(day) == [timestamp |-> [ok |-> TRUE, aware |-> TRUE, day |-> day]]
BadTimestamp == [timestamp |-> [ok |-> FALSE, aware |-> FALSE, day |-> 0]]

\* "pool err pool", titled "DB Pool", dated day 0
Doc1 == [id |-> "d1",
         content |-> Text(<<"p","o","o","l"," ","e","r","r"," ","p","o","o","l">>),
         title |-> <<"D","B"," ","P","o","o","l">>, metadata |-> Timestamp(0)]
\* "Net-err db", titled "net", no timestamp
Doc2 == [id |-> "d2",
         content |-> Text(<<"N","e","t","-","e","r","r"," ","d","b">>),
         title |-> <<"n","e","t">>, metadata |-> EmptyDict]
\* "pool" followed by spaces up to 2000 characters, untitled, bad timestamp
Doc3 == [id |-> "d3", content |-> Padded(<<"p","o","o","l">>, LongContent),
         title |-> <<>>, metadata |-> BadTimestamp]
\* "err net" followed by spaces up to 500 characters, titled "Err"
Doc4 == [id |-> "d4", content |-> Padded(<<"e","r","r"," ","n","e","t">>, ShortContent),
         title |-> <<"E","r","r">>, metadata |-> Timestamp(0)]

Corpora == {<<Doc1, Doc2>>, <<Doc3, Doc4>>, <<>>}

\* items the semantic collaborator answers with: Doc1 as the vector store
\* holds it, and a document of 2001 characters that the keyword index does
\* not hold
Item1 == [id |-> "d1", content |-> Doc1.content, score |-> Frac(9, 10),
          title |-> Doc1.title, metadata |-> Timestamp(0)]
Item2 == [id |-> "x9", content |-> Padded(<<"p","o","o","l"," ","n","e","t">>, LongContent + 1),
          score |-> Frac(1, 2), title |-> <<>>, metadata |-> BadTimestamp]

\* None where a str is expected: no sequence of characters
NoneStr == <<"None">>

\* an item whose title is null
Item3 == [id |-> "n7", content |-> Text(<<"p","o","o","l"," ","e","r","r">>),
          score |-> Frac(7, 10), title |-> NoneStr, metadata |-> EmptyDict]

Responses == {<<>>, <<Item1>>, <<Item2, Item1>>, <<Item3>>}

Queries == {<<"P","o","o","l">>, <<"e","r","r"," ","n","e","t">>, <<>>}

\* the days datetime.now() is read on
Days == {29, 30, 89, 90}

\* what BM25Scorer's methods are called with when the scorer is used on its
\* own: a query that repeats a token, and a corpus of three documents to
\* search (search takes the documents as an argument)
ScorerQueries == Queries \cup {<<"p","o","o","l"," ","p","o","o","l">>}
ScorerDocuments == {Doc1, Doc2, Doc3, Doc4}
SearchCorpora == {<<Doc1, Doc2, Doc4>>, <<Doc3, Doc4>>, <<>>}

\* what _fuse_results and _rerank_results are called with when they are
\* called on their own: ranked lists of SearchResults of the three sources
GraphResult(document, s) ==
    [id |-> document.id, content |-> document.content, score |-> Frac(s, Scale),
     title |-> document.title, metadata |-> document.metadata,
     source |-> "graph",
     relevance_factors |-> [f \in {"graph_score"} |-> Frac(s, Scale)]]

\* "pool net", titled "pool", found by the graph only
Doc5 == [id |-> "g5", content |-> Text(<<"p","o","o","l"," ","n","e","t">>),
         title |-> <<"p","o","o","l">>, metadata |-> EmptyDict]

SemanticLists ==
    {<<>>, <<SemanticResult(Item1)>>, <<SemanticResult(Item2), SemanticResult(Item1)>>,
     <<SemanticResult(Item3)>>}
KeywordLists ==
    {<<>>, <<KeywordResult(Doc1, 15000)>>,
     <<KeywordResult(Doc4, 9000), KeywordResult(Doc2, 4000)>>,
     <<KeywordResult(Doc3, 7000), KeywordResult(Doc1, 2000)>>}
GraphLists ==
    {<<>>, <<GraphResult(Doc1, 8000)>>, <<GraphResult(Doc5, 6000), GraphResult(Doc2, 3000)>>}

\* a result dated day, its timestamp written with or without a UTC offset,
\* unparseable, or missing
Dated(id, metadata) ==
    [id |-> id, content |-> Text(<<"p","o","o","l"," ","e","r","r">>),
     score |-> Frac(1, 2), title |-> <<"n","e","t">>, metadata |-> metadata,
     source |-> "hybrid", relevance_factors |-> EmptyDict]

RerankLists ==
    {<<>>,
     <<Dated("t1", Timestamp(0)), Dated("t2", EmptyDict)>>,
     <<Dated("t3", BadTimestamp), Dated("t1", Timestamp(0))>>,
     <<Dated("t4", AwareTimestamp(0))>>,
     <<Dated("t5", Timestamp(60)), Dated("t4", AwareTimestamp(0))>>,
     <<FinalFusion(SemanticResult(Item3))>>}

NoOp == [kind |-> "none", query |-> <<>>, documents |-> <<>>, k |-> 0,
         exc |-> FALSE, tokens |-> <<>>, score |-> 0, results |-> <<>>]

NoBranch == [exc |-> FALSE, val |-> <<>>]
NoResp == [kind |-> "none", items |-> <<>>]
NoCall == [set |-> FALSE, query |-> <<>>, k |-> 0, enable_rerank |-> FALSE,
           resp |-> NoResp, snapshot |-> <<>>, outcome |-> "none", results |-> <<>>]

(***************************************************************************)
(* CircuitBreaker (backend/app/utils/circuit_breaker.py).                  *)
(***************************************************************************)
\* CircuitBreakerConfig as the breaker of the model is built: the defaults,
\* with the failure_threshold of test_open_circuit_rejects_calls
FailureThreshold == 2
SuccessThreshold == 2
TimeoutSeconds == 60
HalfOpenMaxCalls == 3

\* Optional[float]: None, or a time
NoTime == [set |-> FALSE, t |-> 0]
At(t) == [set |-> TRUE, t |-> t]

\* CircuitStats()
NewStats ==
    [total_calls |-> 0, successful_calls |-> 0, failed_calls |-> 0,
     rejected_calls |-> 0, state_changes |-> 0]

\* CircuitBreaker.__init__: fallback is whether a fallback was given
NewBreaker(with_fallback) ==
    [state |-> "closed", failure_count |-> 0, success_count |-> 0,
     half_open_calls |-> 0, opened_at |-> NoTime, fallback |-> with_fallback,
     stats |-> NewStats]

\* _transition_to_open, time.time() being t
transition_to_open(b, t) ==
    [b EXCEPT !.state = "open", !.opened_at = At(t),
              !.stats.state_changes = @ + 1]

\* _transition_to_half_open
transition_to_half_open(b) ==
    [b EXCEPT !.state = "half_open", !.success_count = 0, !.half_open_calls = 0,
              !.stats.state_changes = @ + 1]

\* _transition_to_closed
transition_to_closed(b) ==
    [b EXCEPT !.state = "closed", !.failure_count = 0, !.success_count = 0,
              !.half_open_calls = 0, !.opened_at = NoTime,
              !.stats.state_changes = @ + 1]

\* a reset that is attempted whatever time has passed
should_attempt_reset_always(b, t) == TRUE

\* _should_attempt_reset, time.time() being t
should_attempt_reset(b, t) ==
    IF ~b.opened_at.set THEN TRUE
    ELSE t - b.opened_at.t >= TimeoutSeconds

\* _on_success without the reset of failure_count in CLOSED
on_success_keeping_count(b) ==
    LET counted == [b EXCEPT !.stats.successful_calls = @ + 1]
    IN  IF counted.state = "half_open"
        THEN LET slot == [counted EXCEPT !.success_count = @ + 1,
                                         !.half_open_calls = @ - 1]
             IN  IF slot.success_count >= SuccessThreshold
                 THEN transition_to_closed(slot)
                 ELSE slot
        ELSE counted

\* _on_success
on_success(b) ==
    LET counted == [b EXCEPT !.stats.successful_calls = @ + 1]
    IN  IF counted.state = "half_open"
        THEN LET slot == [counted EXCEPT !.success_count = @ + 1,
                                         !.half_open_calls = @ - 1]
             IN  IF slot.success_count >= SuccessThreshold
                 THEN transition_to_closed(slot)
                 ELSE slot
        ELSE IF counted.state = "closed"
        THEN [counted EXCEPT !.failure_count = 0]
        ELSE counted

\* _on_failure, time.time() being t
on_failure(b, t) ==
    LET counted == [b EXCEPT !.stats.failed_calls = @ + 1]
    IN  IF counted.state = "half_open"
        THEN transition_to_open([counted EXCEPT !.half_open_calls = @ - 1], t)
        ELSE IF counted.state = "closed"
        THEN LET more == [counted EXCEPT !.failure_count = @ + 1]
             IN  IF more.failure_count >= FailureThreshold
                 THEN transition_to_open(more, t)
                 ELSE more
        ELSE counted

\* _handle_rejection: the fallback's result, or CircuitBreakerOpenError
handle_rejection(b) == IF b.fallback THEN "fallback" ELSE "open_error"

\* the locked block of call without the timeout test: any call that finds the
\* circuit OPEN moves it to HALF_OPEN
admit_untimed(b, t) ==
    LET counted == [b EXCEPT !.stats.total_calls = @ + 1]
        probed == IF counted.state = "open" THEN transition_to_half_open(counted)
                  ELSE counted
    IN  IF probed.state = "half_open"
        THEN [admitted |-> TRUE, b |-> [probed EXCEPT !.half_open_calls = @ + 1]]
        ELSE [admitted |-> TRUE, b |-> probed]

\* call, the block under the lock: the breaker after it and whether the
\* function is to be executed
admit(b, t) ==
    LET counted == [b EXCEPT !.stats.total_calls = @ + 1]
        rejected == [admitted |-> FALSE,
                     b |-> [counted EXCEPT !.stats.rejected_calls = @ + 1]]
    IN  IF counted.state = "open" /\ ~should_attempt_reset(counted, t)
        THEN rejected
        ELSE LET probed == IF counted.state = "open"
                           THEN transition_to_half_open(counted)
                           ELSE counted
             IN  IF probed.state = "half_open"
                 THEN IF probed.half_open_calls >= HalfOpenMaxCalls
                      THEN [admitted |-> FALSE,
                            b |-> [probed EXCEPT !.stats.rejected_calls = @ + 1]]
                      ELSE [admitted |-> TRUE,
                            b |-> [probed EXCEPT !.half_open_calls = @ + 1]]
                 ELSE [admitted |-> TRUE, b |-> probed]

\* the callers of the breaker, and a caller that is not in a call
Callers == 1..MaxCallers
\* period is the HALF_OPEN period the call was admitted in, 0 for a call
\* admitted in CLOSED or rejected
NoBreakerCall == [pc |-> "idle", invoked |-> FALSE, outcome |-> "none", period |-> 0]

\* _fuse_results or _rerank_results not called directly yet
NoMethodCall ==
    [kind |-> "none", query |-> <<>>, semantic |-> <<>>, keyword |-> <<>>,
     graph |-> <<>>, today |-> 0, exc |-> FALSE, out |-> <<>>]

(***************************************************************************)
(* EnhancedCAGAgent (enhanced_cag_agent.py): the critics' weights, the     *)
(* health score, the issue penalty and the refined confidence.  A          *)
(* CriticEvaluation is [critic_name, score, issues, severity] with score a *)
(* rational and issues the length of the issue list.                       *)
(***************************************************************************)
MaxStages == 2

FSub(x, y) == Frac(x.n * y.d - y.n * x.d, x.d * y.d)
FAbs(x) == [n |-> Abs(x.n), d |-> x.d]
FOne == [n |-> 1, d |-> 1]
FMin(x, y) == IF FLess(y, x) THEN y ELSE x
FGeq(x, y) == ~FLess(x, y)

ConfidenceTarget == Frac(85, 100)
ConvergenceDelta == Frac(1, 100)
LowConfidence == Frac(7, 10)

\* _initialize_critics: critic name -> weight
CriticWeights ==
    [technical_accuracy |-> Frac(15, 10), completeness |-> Frac(12, 10),
     safety |-> Frac(13, 10), clarity |-> Frac(10, 10)]

CriticNames == <<"technical_accuracy", "completeness", "safety", "clarity">>

SeverityMultiplier(severity) ==
    CASE severity = "low" -> Frac(10, 10)
      [] severity = "medium" -> Frac(9, 10)
      [] severity = "high" -> Frac(7, 10)
      [] severity = "critical" -> Frac(5, 10)
      [] OTHER -> Frac(8, 10)

RECURSIVE WeightedScores(_, _)
WeightedScores(evaluations, i) ==
    IF i > Len(evaluations) THEN FZero
    ELSE LET e == evaluations[i]
         IN  IF e.critic_name \in DOMAIN CriticWeights
             THEN FAdd(FMul(FMul(e.score, CriticWeights[e.critic_name]),
                            SeverityMultiplier(e.severity)),
                       WeightedScores(evaluations, i + 1))
             ELSE WeightedScores(evaluations, i + 1)

RECURSIVE TotalWeight(_, _)
TotalWeight(evaluations, i) ==
    IF i > Len(evaluations) THEN FZero
    ELSE LET e == evaluations[i]
         IN  IF e.critic_name \in DOMAIN CriticWeights
             THEN FAdd(CriticWeights[e.critic_name], TotalWeight(evaluations, i + 1))
             ELSE TotalWeight(evaluations, i + 1)

FDiv(x, y) == Frac(x.n * y.d, x.d * y.n)

calculate_health_score(evaluations) ==
    IF evaluations = <<>> THEN Frac(1, 2)
    ELSE LET total_weight == TotalWeight(evaluations, 1)
             health_score ==
                 IF FLess(FZero, total_weight)
                 THEN FDiv(WeightedScores(evaluations, 1), total_weight)
                 ELSE Frac(1, 2)
         IN  FMin(FMax(health_score, FZero), FOne)

RECURSIVE CountIssues(_, _, _)
CountIssues(evaluations, i, critical_only) ==
    IF i > Len(evaluations) THEN 0
    ELSE (IF critical_only /\ evaluations[i].severity # "critical"
          THEN 0 ELSE evaluations[i].issues)
         + CountIssues(evaluations, i + 1, critical_only)

calculate_issue_penalty(evaluations) ==
    LET total_issues == CountIssues(evaluations, 1, FALSE)
        critical_issues == CountIssues(evaluations, 1, TRUE)
        penalty == FAdd(Frac(total_issues * 5, 100), Frac(critical_issues * 15, 100))
    IN  FMin(penalty, Frac(50, 100))

calculate_refined_confidence(current_confidence, health_score, evaluations) ==
    LET new_confidence ==
            FAdd(FAdd(FMul(Frac(3, 10), current_confidence),
                      FMul(Frac(5, 10), health_score)),
                 FMul(Frac(2, 10), FSub(FOne, calculate_issue_penalty(evaluations))))
    IN  FMin(FMax(new_confidence, FZero), FOne)

\* one run of the body of refine's for loop: the record after it, with
\* stop naming the way the loop goes on ("next", or the reason it ended)
RefineIteration(c, critic_evaluations) ==
    LET health_score == calculate_health_score(critic_evaluations)
    IN  IF FGeq(health_score, ConfidenceTarget)
           /\ FGeq(c.current_confidence, ConfidenceTarget)
        THEN [c EXCEPT !.pc = "verify", !.stop = "target"]
        ELSE LET new_confidence ==
                     calculate_refined_confidence(c.current_confidence, health_score,
                                                  critic_evaluations)
                 stage == [stage_number |-> c.stage_num + 1,
                           critic_evaluations |-> critic_evaluations,
                           confidence_before |-> c.current_confidence,
                           confidence_after |-> new_confidence,
                           overall_health_score |-> health_score]
                 current_confidence == new_confidence
                 converged ==
                     FLess(FAbs(FSub(new_confidence, current_confidence)),
                           ConvergenceDelta)
                 exhausted == c.stage_num + 1 >= c.max_stages
             IN  [c EXCEPT !.stages = Append(@, stage),
                           !.current_confidence = current_confidence,
                           !.stage_num = IF converged THEN @ ELSE @ + 1,
                           !.pc = IF converged \/ exhausted THEN "verify" ELSE "loop",
                           !.stop = IF converged THEN "converged"
                                    ELSE IF exhausted THEN "exhausted" ELSE "next"]

\* the EnhancedCAGResponse refine builds
BuildResponse(c) ==
    [final_confidence |-> c.current_confidence,
     stages |-> c.stages,
     total_stages |-> Len(c.stages),
     initial_confidence |-> c.initial_confidence,
     converged |-> FGeq(c.current_confidence, ConfidenceTarget)]

NoResponse ==
    [final_confidence |-> FZero, stages |-> <<>>, total_stages |-> 0,
     initial_confidence |-> FZero, converged |-> FALSE]

\* an agent built with config max_stages, no refine call under way
NewAgent(max_stages) ==
    [max_stages |-> max_stages, pc |-> "idle", initial_confidence |-> FZero,
     current_confidence |-> FZero, stage_num |-> 0, stages |-> <<>>,
     stop |-> "none", response |-> NoResponse]

NoRefine == NewAgent(MaxStages)

\* what one critic answers: a parsed verdict, or the fallback its except
\* branch builds for an answer that is not JSON
Verdict(score_percent, issues, severity) ==
    [score |-> Frac(score_percent, 100), issues |-> issues, severity |-> severity]

UnparsedVerdict == Verdict(70, 1, "medium")

EvaluationsOf(verdict) ==
    [i \in 1..Len(CriticNames) |->
        [critic_name |-> CriticNames[i], score |-> verdict.score,
         issues |-> verdict.issues, severity |-> verdict.severity]]

\* the lists _run_critics can return: every critic raised, or all answered
CriticAnswers ==
    {<<>>} \cup {EvaluationsOf(v) : v \in
        {Verdict(100, 0, "low"), Verdict(90, 0, "low"), Verdict(0, 2, "critical"),
         Verdict(50, 1, "high"), UnparsedVerdict}}

InitialConfidences ==
    {Frac(30, 100), Frac(50, 100), Frac(60, 100), Frac(69, 100),
     Frac(70, 100), Frac(85, 100), Frac(90, 100)}

StageLimits == {1, MaxStages, MaxStages + 1}
(***************************************************************************)
(* State.                                                                  *)
(***************************************************************************)
VARIABLES
    bm25,               \* HybridSearchEngine.bm25, a BM25Scorer
    indexed_documents,  \* HybridSearchEngine.indexed_documents
    index_initialized,  \* HybridSearchEngine.index_initialized
    index_calls,        \* number of initialize_index calls so far
    now,                \* the day datetime.now() returns
    pc,                 \* hybrid_search: "idle", "gather" (awaiting the gather), "done"
    query,              \* arguments of the call in progress
    k,
    enable_rerank,
    sem_st,             \* the _semantic_search task: "none", "awaiting", "done"
    kw_st,              \* the _keyword_search task: "none", "created", "done"
    sem_resp,           \* what the collaborator answered
    semantic_results,   \* what the gather gave for the semantic branch
    keyword_results,    \* what the gather gave for the keyword branch
    kw_snapshot,        \* the index the keyword task read
    fused_results,      \* what _fuse_results returned
    reranked_results,   \* fused_results after "Rerank if enabled"
    rerank_now,         \* the day the call read when it reranked
    final_results,      \* what hybrid_search returned
    outcome,            \* "none", "returned", "raised"
    prev,               \* the call completed before this one (SpecTwoCalls)
    sc,                 \* a BM25Scorer used on its own (ScorerSpec)
    sc_calls,           \* number of index_documents calls on sc so far
    op,                 \* the last operation called on sc, with what it gave
    cb,                 \* a CircuitBreaker (BreakerSpec)
    clock,              \* what time.time() returns
    calls,              \* the calls of CircuitBreaker.call, by caller
    streak,             \* counted failures since the last success or closing
    resets,             \* number of CircuitBreaker.reset calls so far
    period_successes,   \* successes of calls admitted in this HALF_OPEN period
    mcall,              \* the last direct call of _fuse_results or _rerank_results
    cag                 \* EnhancedCAGAgent.refine: the call in progress

vars == <<bm25, indexed_documents, index_initialized, index_calls, now, pc, query, k,
          enable_rerank, sem_st, kw_st, sem_resp, semantic_results, keyword_results,
          kw_snapshot, fused_results, reranked_results, rerank_now, final_results,
          outcome, prev, sc, sc_calls, op, cb, clock, calls, streak, resets,
          period_successes, mcall, cag>>

engine_vars == <<bm25, indexed_documents, index_initialized, index_calls, now, pc,
                 query, k, enable_rerank, sem_st, kw_st, sem_resp, semantic_results,
                 keyword_results, kw_snapshot, fused_results, reranked_results,
                 rerank_now, final_results, outcome, prev>>
scorer_vars == <<sc, sc_calls, op>>
breaker_vars == <<cb, clock, calls, streak, resets, period_successes>>
method_vars == <<mcall>>
refine_vars == <<cag>>

index_vars == <<bm25, indexed_documents, index_initialized, index_calls>>
args_vars == <<query, k, enable_rerank>>
sem_vars == <<sem_st, sem_resp, semantic_results>>
kw_vars == <<kw_st, keyword_results, kw_snapshot>>
result_vars == <<fused_results, reranked_results, rerank_now, final_results, outcome>>

Snapshot == [bm25 |-> bm25, indexed_documents |-> indexed_documents,
             index_initialized |-> index_initialized]

\* HybridSearchEngine.__init__
EngineInit ==
    /\ bm25 = NewScorer
    /\ indexed_documents = <<>>
    /\ index_initialized = FALSE
    /\ index_calls = 0
    /\ now \in Days
    /\ pc = "idle"
    /\ query = <<>>
    /\ k = 0
    /\ enable_rerank = FALSE
    /\ sem_st = "none"
    /\ kw_st = "none"
    /\ sem_resp = NoResp
    /\ semantic_results = NoBranch
    /\ keyword_results = NoBranch
    /\ kw_snapshot = <<>>
    /\ fused_results = <<>>
    /\ reranked_results = <<>>
    /\ rerank_now = 0
    /\ final_results = <<>>
    /\ outcome = "none"
    /\ prev = NoCall

\* BM25Scorer.__init__, no operation called yet
ScorerInit ==
    /\ sc = NewScorer
    /\ sc_calls = 0
    /\ op = NoOp

\* CircuitBreaker.__init__(name, config, fallback), the clock at 0, no call
\* in progress
BreakerInit(with_fallback) ==
    /\ cb = NewBreaker(with_fallback)
    /\ clock = 0
    /\ calls = [c \in Callers |-> NoBreakerCall]
    /\ streak = 0
    /\ resets = 0
    /\ period_successes = 0

\* no direct call of _fuse_results or _rerank_results yet
MethodInit == mcall = NoMethodCall

\* EnhancedCAGAgent.__init__, refine not called
RefineInit == cag = NoRefine

Init == EngineInit /\ ScorerInit /\ BreakerInit(FALSE) /\ MethodInit /\ RefineInit

(***************************************************************************)
(* Actions.                                                                *)
(***************************************************************************)
\* an initialize_index that lets other tasks run between its assignments:
\* the documents are replaced, the scorer is not rebuilt yet
InitializeIndexInterrupted(documents) ==
    /\ index_calls < MaxIndexCalls
    /\ indexed_documents' = documents
    /\ index_initialized' = TRUE
    /\ index_calls' = index_calls + 1
    /\ UNCHANGED <<bm25, now, pc, args_vars, sem_vars, kw_vars, result_vars, prev,
                   scorer_vars, breaker_vars, method_vars, refine_vars>>

\* HybridSearchEngine.initialize_index(documents): no await inside, one step
InitializeIndex(documents) ==
    /\ index_calls < MaxIndexCalls
    /\ indexed_documents' = documents
    /\ bm25' = index_documents(bm25, documents)
    /\ index_initialized' = TRUE
    /\ index_calls' = index_calls + 1
    /\ UNCHANGED <<now, pc, args_vars, sem_vars, kw_vars, result_vars, prev,
                   scorer_vars, breaker_vars, method_vars, refine_vars>>

\* time passes
Tick ==
    /\ \E d \in Days : d > now /\ now' = d
    /\ UNCHANGED <<index_vars, pc, args_vars, sem_vars, kw_vars, result_vars, prev,
                   scorer_vars, breaker_vars, method_vars, refine_vars>>

\* hybrid_search(query, k, enable_rerank) up to "await asyncio.gather": both
\* coroutines are created, the semantic one awaits similarity_search(query, 2k)
StartSearch(q, kk, rr) ==
    /\ pc = "idle"
    /\ pc' = "gather"
    /\ query' = q
    /\ k' = kk
    /\ enable_rerank' = rr
    /\ sem_st' = "awaiting"
    /\ kw_st' = "created"
    /\ UNCHANGED <<index_vars, now, sem_resp, semantic_results, keyword_results,
                   kw_snapshot, result_vars, prev,
                   scorer_vars, breaker_vars, method_vars, refine_vars>>

\* a _keyword_search task that builds the index when it finds none ("Try to
\* initialize with available documents")
KeywordTaskInitializing ==
    /\ pc = "gather"
    /\ kw_st = "created"
    /\ kw_st' = "done"
    /\ bm25' = IF index_initialized THEN bm25 ELSE index_documents(bm25, indexed_documents)
    /\ index_initialized' = TRUE
    /\ keyword_results' = keyword_branch(bm25', indexed_documents, TRUE, query, k * 2)
    /\ kw_snapshot' = Snapshot
    /\ UNCHANGED <<indexed_documents, index_calls, now, pc, args_vars, sem_vars,
                   result_vars, prev, scorer_vars, breaker_vars, method_vars, refine_vars>>

\* the _keyword_search task runs (no await inside: one step)
KeywordTask ==
    /\ pc = "gather"
    /\ kw_st = "created"
    /\ kw_st' = "done"
    /\ keyword_results' = keyword_branch(bm25, indexed_documents, index_initialized,
                                         query, k * 2)
    /\ kw_snapshot' = Snapshot
    /\ UNCHANGED <<index_vars, now, pc, args_vars, sem_vars, result_vars, prev,
                   scorer_vars, breaker_vars, method_vars, refine_vars>>

\* the collaborator answers similarity_search, with a list or by raising, and
\* the _semantic_search task runs to its end
CollaboratorAnswers(resp) ==
    /\ pc = "gather"
    /\ sem_st = "awaiting"
    /\ sem_st' = "done"
    /\ sem_resp' = resp
    /\ semantic_results' = semantic_branch(resp)
    /\ UNCHANGED <<index_vars, now, pc, args_vars, kw_vars, result_vars, prev,
                   scorer_vars, breaker_vars, method_vars, refine_vars>>

CollaboratorReturns == \E items \in Responses : CollaboratorAnswers([kind |-> "ok", items |-> items])

CollaboratorRaises == CollaboratorAnswers([kind |-> "raise", items |-> <<>>])

\* the collaborator answers with something that is not a list of dicts
CollaboratorMalformed == CollaboratorAnswers([kind |-> "not_a_list", items |-> <<>>])

\* _rerank_results raises: result.title.lower() on a title that is None (the
\* loop is in no try block)
RerankRaises(results) == \E i \in 1..Len(results) : results[i].title = NoneStr

\* "Rerank if enabled"
MaybeRerank(q, rr, fused, today) ==
    IF rr /\ fused # <<>> THEN rerank_results(q, fused, today) ELSE fused

\* hybrid_search from "Fuse results" to its return, given the two branches
\* after "Handle exceptions"; _fuse_results raises when handed an exception
\* instead of a list
hybrid_search_tail(sem_branch, kw_branch, q, kk, rr, today) ==
    IF sem_branch.exc \/ kw_branch.exc
    THEN [outcome |-> "raised", fused |-> <<>>, reranked |-> <<>>, final |-> <<>>]
    ELSE LET fused == fuse_results(sem_branch.val, kw_branch.val, <<>>)
             reranked == MaybeRerank(q, rr, fused, today)
         IN  IF rr /\ fused # <<>> /\ RerankRaises(fused)
             THEN [outcome |-> "raised", fused |-> fused, reranked |-> <<>>,
                   final |-> <<>>]
             ELSE [outcome |-> "returned", fused |-> fused, reranked |-> reranked,
                   final |-> Take(reranked, kk)]

\* a hybrid_search that fuses as soon as the keyword task is done, without
\* waiting for the semantic one
GatherCompleteEarly ==
    /\ pc = "gather"
    /\ kw_st = "done"
    /\ pc' = "done"
    /\ LET r == hybrid_search_tail(semantic_results, keyword_results, query, k,
                                   enable_rerank, now)
       IN  /\ fused_results' = r.fused
           /\ reranked_results' = r.reranked
           /\ final_results' = r.final
           /\ outcome' = r.outcome
    /\ rerank_now' = now
    /\ UNCHANGED <<index_vars, now, args_vars, sem_vars, kw_vars, prev,
                   scorer_vars, breaker_vars, method_vars, refine_vars>>

\* the gather is over: hybrid_search runs to its return (_rerank_results has
\* no await inside)
GatherComplete ==
    /\ pc = "gather"
    /\ sem_st = "done"
    /\ kw_st = "done"
    /\ pc' = "done"
    /\ LET r == hybrid_search_tail(semantic_results, keyword_results, query, k,
                                   enable_rerank, now)
       IN  /\ fused_results' = r.fused
           /\ reranked_results' = r.reranked
           /\ final_results' = r.final
           /\ outcome' = r.outcome
    /\ rerank_now' = now
    /\ UNCHANGED <<index_vars, now, args_vars, sem_vars, kw_vars, prev,
                   scorer_vars, breaker_vars, method_vars, refine_vars>>

\* the caller takes the result; the engine is ready for the next call
Return ==
    /\ pc = "done"
    /\ pc' = "idle"
    /\ query' = <<>>
    /\ k' = 0
    /\ enable_rerank' = FALSE
    /\ sem_st' = "none"
    /\ kw_st' = "none"
    /\ sem_resp' = NoResp
    /\ semantic_results' = NoBranch
    /\ keyword_results' = NoBranch
    /\ kw_snapshot' = <<>>
    /\ fused_results' = <<>>
    /\ reranked_results' = <<>>
    /\ rerank_now' = 0
    /\ final_results' = <<>>
    /\ outcome' = "none"
    /\ UNCHANGED <<index_vars, now, scorer_vars, breaker_vars, method_vars, refine_vars>>

Next ==
    \/ \E documents \in Corpora : InitializeIndex(documents)
    \/ Tick
    \/ \E q \in Queries, kk \in 0..MaxK, rr \in BOOLEAN : StartSearch(q, kk, rr)
    \/ KeywordTask
    \/ CollaboratorReturns
    \/ CollaboratorRaises
    \/ CollaboratorMalformed
    \/ GatherComplete
    \/ Return /\ UNCHANGED prev

Spec == Init /\ [][Next]_vars

(***************************************************************************)
(* The event loop runs every task that is ready; nothing makes the         *)
(* collaborator answer.  Fairness is stated on the control state: in a     *)
(* behaviour of Next a step from kw_st = "created" to "done" is a          *)
(* KeywordTask step, one from pc = "gather" to "done" a GatherComplete     *)
(* step, one from "done" to "idle" a Return step, and each is possible     *)
(* exactly when that action is enabled.                                    *)
(***************************************************************************)
KeywordTaskRuns == pc = "gather" /\ kw_st = "created" /\ kw_st' = "done"
GatherCompletes == pc = "gather" /\ sem_st = "done" /\ kw_st = "done" /\ pc' = "done"
CallReturns == pc = "done" /\ pc' = "idle"

FairSpec ==
    /\ Init
    /\ [][Next]_vars
    /\ WF_kw_st(KeywordTaskRuns)
    /\ WF_pc(GatherCompletes)
    /\ WF_pc(CallReturns)

(***************************************************************************)
(* Two calls in a row: the first is remembered when it returns, the second *)
(* is made with the same arguments, gets the same answer from the          *)
(* collaborator, and runs against the index the first left.                *)
(***************************************************************************)
ThisCall ==
    [set |-> TRUE, query |-> query, k |-> k, enable_rerank |-> enable_rerank,
     resp |-> sem_resp, snapshot |-> kw_snapshot, outcome |-> outcome,
     results |-> final_results]

ReturnFirst ==
    /\ ~prev.set
    /\ Return
    /\ prev' = ThisCall

StartSecond ==
    /\ prev.set
    /\ StartSearch(prev.query, prev.k, prev.enable_rerank)

CollaboratorRepeats ==
    /\ prev.set
    /\ CollaboratorAnswers(prev.resp)

NextTwoCalls ==
    \/ ~prev.set /\ \E documents \in Corpora : InitializeIndex(documents)
    \/ Tick
    \/ ~prev.set /\ \E q \in Queries, kk \in 0..MaxK, rr \in BOOLEAN : StartSearch(q, kk, rr)
    \/ KeywordTask
    \/ ~prev.set /\ CollaboratorReturns
    \/ ~prev.set /\ CollaboratorRaises
    \/ ~prev.set /\ CollaboratorMalformed
    \/ GatherComplete
    \/ ReturnFirst
    \/ StartSecond
    \/ CollaboratorRepeats

SpecTwoCalls == Init /\ [][NextTwoCalls]_vars

(***************************************************************************)
(* The BM25Scorer used on its own: index_documents, tokenize, score and    *)
(* search called in any order on one scorer.  A call that raises leaves    *)
(* exc set in op.                                                          *)
(***************************************************************************)
\* scorer.index_documents(documents)
ScorerIndexDocuments(documents) ==
    /\ sc_calls < MaxIndexCalls
    /\ sc_calls' = sc_calls + 1
    /\ IF IndexRaises(sc, documents)
       THEN /\ sc' = IndexLoop([sc EXCEPT !.num_docs = Len(documents)], documents, 1)
            /\ op' = [NoOp EXCEPT !.kind = "index_documents", !.documents = documents,
                                  !.exc = TRUE]
       ELSE /\ sc' = index_documents(sc, documents)
            /\ op' = [NoOp EXCEPT !.kind = "index_documents", !.documents = documents]
    /\ UNCHANGED <<engine_vars, breaker_vars, method_vars,
                   refine_vars>>

\* scorer.tokenize(text)
ScorerTokenize(text) ==
    /\ op' = [NoOp EXCEPT !.kind = "tokenize", !.query = text, !.tokens = tokenize(text)]
    /\ UNCHANGED <<sc, sc_calls, engine_vars, breaker_vars, method_vars,
                   refine_vars>>

\* scorer.score(q, document)
ScorerScore(q, document) ==
    /\ op' = IF ScoreRaises(sc, q, document)
             THEN [NoOp EXCEPT !.kind = "score", !.query = q,
                               !.documents = <<document>>, !.exc = TRUE]
             ELSE [NoOp EXCEPT !.kind = "score", !.query = q,
                               !.documents = <<document>>,
                               !.score = score(sc, q, document)]
    /\ UNCHANGED <<sc, sc_calls, engine_vars, breaker_vars, method_vars,
                   refine_vars>>

\* scorer.search(q, documents, kk)
ScorerSearch(q, documents, kk) ==
    /\ op' = IF SearchRaises(sc, q, documents)
             THEN [NoOp EXCEPT !.kind = "search", !.query = q, !.documents = documents,
                               !.k = kk, !.exc = TRUE]
             ELSE [NoOp EXCEPT !.kind = "search", !.query = q, !.documents = documents,
                               !.k = kk, !.results = search(sc, q, documents, kk)]
    /\ UNCHANGED <<sc, sc_calls, engine_vars, breaker_vars, method_vars,
                   refine_vars>>

ScorerNext ==
    \/ \E documents \in Corpora : ScorerIndexDocuments(documents)
    \/ \E text \in ScorerQueries : ScorerTokenize(text)
    \/ \E q \in ScorerQueries, document \in ScorerDocuments : ScorerScore(q, document)
    \/ \E q \in ScorerQueries, documents \in SearchCorpora, kk \in 0..MaxK :
          ScorerSearch(q, documents, kk)

ScorerSpec == Init /\ [][ScorerNext]_vars

(***************************************************************************)
(* The circuit breaker with concurrent callers.  The block of call under   *)
(* the lock is one step, a rejection included (the lock is held while the  *)
(* fallback runs); the protected function then runs with the lock free;    *)
(* its return or its exception and _on_success or _on_failure are one      *)
(* step (nothing is awaited between them but the free lock).               *)
(***************************************************************************)
\* the HALF_OPEN period a breaker is in, numbered by the state changes so
\* far; 0 outside HALF_OPEN
PeriodOf(b) == IF b.state = "half_open" THEN b.stats.state_changes ELSE 0

\* the successes of calls admitted in the current HALF_OPEN period: n while
\* the period lasts and in the step that closes the breaker, 0 otherwise
TrackPeriod(before, after, n) ==
    IF after.state = "half_open" THEN n
    ELSE IF before.state = "half_open" /\ after.state = "closed" THEN n
    ELSE 0

\* breaker.call(func) up to the await of func, or to the rejection
BreakerCall(c) ==
    /\ calls[c].pc = "idle"
    /\ cb.stats.total_calls < MaxCalls
    /\ LET r == admit(cb, clock)
       IN  /\ cb' = r.b
           /\ calls' = [calls EXCEPT ![c] =
                          IF r.admitted
                          THEN [pc |-> "executing", invoked |-> TRUE, outcome |-> "none",
                                period |-> PeriodOf(r.b)]
                          ELSE [pc |-> "done", invoked |-> FALSE,
                                outcome |-> handle_rejection(cb), period |-> 0]]
           /\ period_successes' =
                  TrackPeriod(cb, r.b, IF r.b.stats.state_changes # cb.stats.state_changes
                                       THEN 0 ELSE period_successes)
    /\ UNCHANGED <<clock, streak, resets, engine_vars, scorer_vars,
                   method_vars, refine_vars>>

\* func returns: _on_success, and call returns the result
FuncReturns(c) ==
    /\ calls[c].pc = "executing"
    /\ cb' = on_success(cb)
    /\ calls' = [calls EXCEPT ![c].pc = "done", ![c].outcome = "returned"]
    /\ streak' = 0
    /\ period_successes' =
           TrackPeriod(cb, on_success(cb),
                       IF calls[c].period = PeriodOf(cb)
                       THEN period_successes + 1 ELSE period_successes)
    /\ UNCHANGED <<clock, resets, engine_vars, scorer_vars,
                   method_vars, refine_vars>>

\* func raises an exception that counts: _on_failure, then the fallback's
\* result or the exception
FuncRaises(c) ==
    /\ calls[c].pc = "executing"
    /\ cb' = on_failure(cb, clock)
    /\ calls' = [calls EXCEPT ![c].pc = "done",
                              ![c].outcome = IF cb.fallback THEN "fallback" ELSE "raised"]
    /\ streak' = streak + 1
    /\ period_successes' = TrackPeriod(cb, on_failure(cb, clock), period_successes)
    /\ UNCHANGED <<clock, resets, engine_vars, scorer_vars,
                   method_vars, refine_vars>>

\* func raises an exception of config.exclude_exceptions: re-raised at once
FuncRaisesExcluded(c) ==
    /\ calls[c].pc = "executing"
    /\ calls' = [calls EXCEPT ![c].pc = "done", ![c].outcome = "raised_excluded"]
    /\ UNCHANGED <<cb, clock, streak, resets, period_successes, engine_vars, scorer_vars,
                   method_vars, refine_vars>>

\* the caller has its result or its exception
CallerReturns(c) ==
    /\ calls[c].pc = "done"
    /\ calls' = [calls EXCEPT ![c] = NoBreakerCall]
    /\ UNCHANGED <<cb, clock, streak, resets, period_successes, engine_vars, scorer_vars,
                   method_vars, refine_vars>>

\* breaker.reset()
BreakerReset ==
    /\ resets < MaxResets
    /\ resets' = resets + 1
    /\ cb' = transition_to_closed(cb)
    /\ streak' = 0
    /\ period_successes' = 0
    /\ UNCHANGED <<clock, calls, engine_vars, scorer_vars,
                   method_vars, refine_vars>>

\* time passes
ClockAdvance ==
    /\ clock < MaxClock
    /\ clock' = clock + ClockStep
    /\ UNCHANGED <<cb, calls, streak, resets, period_successes, engine_vars, scorer_vars,
                   method_vars, refine_vars>>

BreakerNext ==
    \/ \E c \in Callers : BreakerCall(c)
    \/ \E c \in Callers : FuncReturns(c)
    \/ \E c \in Callers : FuncRaises(c)
    \/ \E c \in Callers : FuncRaisesExcluded(c)
    \/ \E c \in Callers : CallerReturns(c)
    \/ BreakerReset
    \/ ClockAdvance

\* a breaker built with or without a fallback
BreakerSpecInit ==
    /\ EngineInit
    /\ now = 29
    /\ ScorerInit
    /\ \E with_fallback \in BOOLEAN : BreakerInit(with_fallback)
    /\ MethodInit
    /\ RefineInit

BreakerSpec == BreakerSpecInit /\ [][BreakerNext]_vars

(***************************************************************************)
(* _fuse_results and _rerank_results called on their own: mcall is the     *)
(* last call, its arguments and what it returned.                          *)
(***************************************************************************)
\* engine._fuse_results(semantic_results, keyword_results, graph_results)
FuseCall(sem_list, kw_list, graph_list) ==
    /\ mcall' = [kind |-> "fuse", query |-> <<>>, semantic |-> sem_list,
                 keyword |-> kw_list, graph |-> graph_list, today |-> 0,
                 exc |-> FALSE,
                 out |-> fuse_results(sem_list, kw_list, graph_list)]
    /\ UNCHANGED <<engine_vars, scorer_vars, breaker_vars, refine_vars>>

\* engine._rerank_results(query, results), datetime.now() being today
RerankCall(q, results, today) ==
    /\ mcall' = [kind |-> "rerank", query |-> q, semantic |-> results,
                 keyword |-> <<>>, graph |-> <<>>, today |-> today,
                 exc |-> RerankRaises(results),
                 out |-> IF RerankRaises(results) THEN <<>>
                         ELSE rerank_results(q, results, today)]
    /\ UNCHANGED <<engine_vars, scorer_vars, breaker_vars, refine_vars>>

MethodNext ==
    \/ \E sem_list \in SemanticLists, kw_list \in KeywordLists,
          graph_list \in GraphLists :
          FuseCall(sem_list, kw_list, graph_list)
    \/ \E q \in Queries, results \in RerankLists, today \in Days :
          RerankCall(q, results, today)

MethodSpec == Init /\ [][MethodNext]_vars

(***************************************************************************)
(* EnhancedCAGAgent.refine.  One step per run of the loop body (the        *)
(* critics, the health score, the corrections, the new confidence, the     *)
(* recorded stage and the two tests that end the loop), one for what       *)
(* follows the loop up to the response, one for the caller taking it.      *)
(***************************************************************************)
\* refine(incident, initial_response, initial_confidence) up to the loop
RefineStart(initial_confidence) ==
    /\ cag.pc = "idle"
    /\ cag' = [cag EXCEPT !.pc = IF cag.max_stages > 0 THEN "loop" ELSE "verify",
                          !.initial_confidence = initial_confidence,
                          !.current_confidence = initial_confidence,
                          !.stage_num = 0,
                          !.stages = <<>>,
                          !.stop = IF cag.max_stages > 0 THEN "none" ELSE "exhausted"]
    /\ UNCHANGED <<engine_vars, scorer_vars, breaker_vars, method_vars>>

\* one run of the loop body, _run_critics returning critic_evaluations
RefineStage(critic_evaluations) ==
    /\ cag.pc = "loop"
    /\ cag' = RefineIteration(cag, critic_evaluations)
    /\ UNCHANGED <<engine_vars, scorer_vars, breaker_vars, method_vars>>

\* llm_service.generate raises in _apply_targeted_corrections or in the
\* consistency verification: nothing in refine catches it
LlmServiceRaises ==
    /\ cag.pc \in {"loop", "verify"}
    /\ cag' = [cag EXCEPT !.pc = "raised"]
    /\ UNCHANGED <<engine_vars, scorer_vars, breaker_vars, method_vars>>

\* consistency verification, the improvement and the response
RefineFinish ==
    /\ cag.pc = "verify"
    /\ cag' = [cag EXCEPT !.pc = "done", !.response = BuildResponse(cag)]
    /\ UNCHANGED <<engine_vars, scorer_vars, breaker_vars, method_vars>>

\* the caller has the response or the exception
RefineReturn ==
    /\ cag.pc \in {"done", "raised"}
    /\ cag' = NewAgent(cag.max_stages)
    /\ UNCHANGED <<engine_vars, scorer_vars, breaker_vars, method_vars>>

RefineNext ==
    \/ \E initial_confidence \in InitialConfidences : RefineStart(initial_confidence)
    \/ \E critic_evaluations \in CriticAnswers : RefineStage(critic_evaluations)
    \/ LlmServiceRaises
    \/ RefineFinish
    \/ RefineReturn

\* an agent built with config max_stages
RefineSpecInit ==
    /\ EngineInit
    /\ now = 29
    /\ ScorerInit
    /\ BreakerInit(FALSE)
    /\ MethodInit
    /\ \E max_stages \in StageLimits : cag = NewAgent(max_stages)

RefineSpec == RefineSpecInit /\ [][RefineNext]_vars

(***************************************************************************)
(* Vocabulary of the properties.                                           *)
(***************************************************************************)
Returned == pc = "done" /\ outcome = "returned"

Ids(results) == {results[i].id : i \in 1..Len(results)}

\* scores in non-increasing order
NonIncreasing(results) ==
    \A i \in 1..(Len(results) - 1) : ~FLess(results[i].score, results[i + 1].score)

\* 1-based rank of id in a ranked list, 0 when the list does not contain it
RankIn(results, id) ==
    IF id \in Ids(results)
    THEN CHOOSE i \in 1..Len(results) :
            results[i].id = id /\ \A j \in 1..(i - 1) : results[j].id # id
    ELSE 0

\* the result with this id in a list that contains it
ResultOf(results, id) == results[RankIn(results, id)]

\* what a call returns to its caller: ids and scores, in order
Answer(results) == [i \in 1..Len(results) |-> <<results[i].id, results[i].score>>]

SharesToken(q, document) ==
    Range(tokenize(q)) \cap Range(tokenize(document.content.chars)) # {}

(***************************************************************************)
(* C1.  When similarity_search raises, hybrid_search does not raise and    *)
(* returns exactly what it returns when the collaborator answers with an   *)
(* empty list: the keyword branch's results, fused, reranked if asked,     *)
(* truncated to k.                                                         *)
(***************************************************************************)
C1_SemanticFailureDegrades ==
    (pc = "done" /\ sem_resp.kind = "raise") =>
        /\ outcome = "returned"
        /\ final_results =
             hybrid_search_tail(semantic_branch([kind |-> "ok", items |-> <<>>]),
                                keyword_results, query, k, enable_rerank, rerank_now).final

\* the collaborator raised and the call returned keyword results
C1_Witness ==
    /\ Returned
    /\ sem_resp.kind = "raise"
    /\ final_results # <<>>
    /\ enable_rerank

(***************************************************************************)
(* C2.  hybrid_search always eventually returns, also when the semantic    *)
(* collaborator never answers: every call that waits for its two branches  *)
(* eventually completes.                                                   *)
(***************************************************************************)
C2_AlwaysReturns == (pc = "gather") ~> (pc = "done")

(***************************************************************************)
(* C3.  For every query, every k >= 0 and either value of enable_rerank,   *)
(* hybrid_search returns at most k results, in non-increasing score order. *)
(***************************************************************************)
C3_AtMostKSorted ==
    Returned => (Len(final_results) <= k /\ NonIncreasing(final_results))

\* a call with k = 2 whose ranking was longer than k and was cut to it
C3_Witness ==
    /\ Returned
    /\ k = 2
    /\ Len(reranked_results) > 2
    /\ Len(final_results) = 2
    /\ FLess(final_results[2].score, final_results[1].score)

(***************************************************************************)
(* C4.  When the collaborator returns an empty list, the index was         *)
(* initialized, k >= 1 and an indexed document shares a token with the     *)
(* query, hybrid_search returns a non-empty list of indexed documents that *)
(* the keyword search scored above 0, in non-increasing score order.       *)
(***************************************************************************)
C4_KeywordOnlyNonEmpty ==
    (/\ Returned
     /\ sem_resp.kind = "ok"
     /\ sem_resp.items = <<>>
     /\ kw_snapshot.index_initialized
     /\ k >= 1
     /\ \E i \in 1..Len(kw_snapshot.indexed_documents) :
            SharesToken(query, kw_snapshot.indexed_documents[i]))
    => /\ final_results # <<>>
       /\ \A id \in Ids(final_results) :
            \E i \in 1..Len(kw_snapshot.indexed_documents) :
                /\ kw_snapshot.indexed_documents[i].id = id
                /\ score(kw_snapshot.bm25, query, kw_snapshot.indexed_documents[i]) > 0
       /\ NonIncreasing(final_results)

(***************************************************************************)
(* C5.  hybrid_search is deterministic: two calls with the same query, k   *)
(* and enable_rerank, the same index snapshot and the same collaborator    *)
(* response return the same ids in the same order with the same scores,    *)
(* whenever they run.                                                      *)
(***************************************************************************)
C5_Deterministic ==
    (/\ prev.set
     /\ pc = "done"
     /\ query = prev.query
     /\ k = prev.k
     /\ enable_rerank = prev.enable_rerank
     /\ sem_resp = prev.resp
     /\ kw_snapshot = prev.snapshot)
    => (outcome = prev.outcome /\ Answer(final_results) = Answer(prev.results))

(***************************************************************************)
(* C6.  index_documents replaces the corpus statistics wholesale: after    *)
(* any sequence of calls the scorer's fields are those a fresh scorer      *)
(* computes from the documents of the last call alone, and doc_freqs[t] is *)
(* the number of those documents that contain t.                           *)
(***************************************************************************)
C6_IndexReplacedWholesale ==
    index_initialized =>
        /\ bm25 = index_documents(NewScorer, indexed_documents)
        /\ \A t \in DOMAIN bm25.doc_freqs :
              bm25.doc_freqs[t] =
                  Cardinality({i \in 1..Len(indexed_documents) :
                                  t \in Range(tokenize(indexed_documents[i].content.chars))})

(***************************************************************************)
(* C7.  The fused score of a document before the multi-source multiplier   *)
(* is the sum, over the sources whose list contains it, of                 *)
(* weight[source] / (60 + rank in that list); a document ranked first in   *)
(* the semantic list only has 0.5 * (1/61).                                *)
(***************************************************************************)
RrfTerm(weight_tenths, rank) ==
    IF rank = 0 THEN FZero ELSE Frac(weight_tenths, 10 * (60 + rank))

SourceCount(id) ==
    (IF id \in Ids(semantic_results.val) THEN 1 ELSE 0)
    + (IF id \in Ids(keyword_results.val) THEN 1 ELSE 0)

Reranked == Returned /\ enable_rerank /\ fused_results # <<>>

ClampedSum(f) ==
    LET total == f.title_match + f.exact_match + f.length_factor + f.recency
    IN  IF total > 50 THEN 50 ELSE IF total < -30 THEN -30 ELSE total

AllFourBonuses(f) ==
    f.title_match = 20 /\ f.exact_match = 30 /\ f.length_factor = 10 /\ f.recency = 15

C10_RerankPermutes ==
    Reranked =>
        /\ Len(reranked_results) = Len(fused_results)
        /\ Ids(reranked_results) = Ids(fused_results)
        /\ Cardinality(Ids(reranked_results)) = Len(reranked_results)
        /\ NonIncreasing(reranked_results)

\* a rerank that changed the order of its input
C10_Witness ==
    /\ Reranked
    /\ Len(reranked_results) >= 2
    /\ reranked_results[1].id # fused_results[1].id


(***************************************************************************)
(* Vocabulary of the scorer's properties.                                  *)
(***************************************************************************)
\* the score of the i-th document of the last operation, as a result holds it
OpScore(i) == score(sc, op.query, op.documents[i])

\* the tokens of a list, each once, in the order of their first occurrence
RECURSIVE Distinct(_)
Distinct(tokens) ==
    IF tokens = <<>> THEN <<>>
    ELSE LET rest == Distinct(SubSeq(tokens, 1, Len(tokens) - 1))
             last == tokens[Len(tokens)]
         IN  IF last \in Range(rest) THEN rest ELSE Append(rest, last)

\* one contribution per distinct query token present in the document
ScoreDistinct(bm, q, document) ==
    LET doc_tokens == tokenize(document.content.chars)
        doc_length == Get(bm.doc_lengths, document.id, Len(doc_tokens))
    IN  ScoreLoop(bm, Distinct(tokenize(q)), doc_tokens, doc_length, 1)

(***************************************************************************)
(* C11.  search(query, documents, k) returns at most k results, each with  *)
(* a score above 0, in non-increasing score order; each is a document of   *)
(* the corpus passed in with its BM25 score, and a document that scores    *)
(* above 0 is left out only when k results were returned that all score at *)
(* least as much: the results are the k highest-scoring documents.         *)
(***************************************************************************)
C11_SearchTopK ==
    (op.kind = "search" /\ ~op.exc) =>
        /\ Len(op.results) <= op.k
        /\ \A j \in 1..Len(op.results) : FLess(FZero, op.results[j].score)
        /\ NonIncreasing(op.results)
        /\ \A j \in 1..Len(op.results) :
              \E i \in 1..Len(op.documents) :
                  /\ op.documents[i].id = op.results[j].id
                  /\ op.results[j].score = Frac(OpScore(i), Scale)
        /\ \A i \in 1..Len(op.documents) :
              OpScore(i) > 0 =>
                  \/ op.documents[i].id \in Ids(op.results)
                  \/ /\ Len(op.results) = op.k
                     /\ \A j \in 1..Len(op.results) :
                           ~FLess(op.results[j].score, Frac(OpScore(i), Scale))

\* a search with k = 2 in three documents that all score above 0: two are
\* returned, and the one left out scores strictly less than both
C11_Witness ==
    /\ op.kind = "search"
    /\ op.k = 2
    /\ Len(op.documents) = 3
    /\ \A i \in 1..3 : OpScore(i) > 0
    /\ Len(op.results) = 2
    /\ \E i \in 1..3 :
          /\ op.documents[i].id \notin Ids(op.results)
          /\ FLess(Frac(OpScore(i), Scale), op.results[2].score)

(***************************************************************************)
(* C12.  After any sequence of index_documents calls, for every query and  *)
(* every document of the corpus indexed last, the score is 0 when they     *)
(* share no token and above 0 when they share one; every term of that      *)
(* corpus has an idf above 0 and a document frequency of at most num_docs. *)
(***************************************************************************)
C12_ScoreSignFollowsOverlap ==
    op.kind = "index_documents" =>
        /\ \A q \in ScorerQueries : \A i \in 1..Len(op.documents) :
              IF SharesToken(q, op.documents[i])
              THEN score(sc, q, op.documents[i]) > 0
              ELSE score(sc, q, op.documents[i]) = 0
        /\ \A t \in AllTerms(op.documents) :
              /\ sc.idf_scores[t] > 0
              /\ sc.doc_freqs[t] <= sc.num_docs

(***************************************************************************)
(* C13.  score adds one contribution per distinct query token present in   *)
(* the document: a query that repeats a token scores every document as the *)
(* query with the token once does.                                         *)
(***************************************************************************)
C13_RepeatedTokenSameScore ==
    (op.kind = "score" /\ ~op.exc) =>
        op.score = ScoreDistinct(sc, op.query, op.documents[1])

(***************************************************************************)
(* C14.  After any sequence of index_documents calls, avg_doc_length times *)
(* num_docs is the sum of all doc_lengths values, and avg_doc_length is 0  *)
(* when num_docs is 0.                                                     *)
(***************************************************************************)
C14_AvgIsMeanOfLengths ==
    /\ sc.avg_doc_length.n * sc.num_docs
         = SumOver(sc.doc_lengths, DOMAIN sc.doc_lengths) * sc.avg_doc_length.d
    /\ sc.num_docs = 0 => sc.avg_doc_length = FZero

(***************************************************************************)
(* C15.  tokenize, index_documents, score and search never raise; the      *)
(* empty string has no token, a document that shares no token with the     *)
(* query scores 0 and is in no search result, and a search in the empty    *)
(* corpus returns the empty list.                                          *)
(***************************************************************************)
C15_ScorerNeverRaises ==
    /\ ~op.exc
    /\ (op.kind = "tokenize" /\ op.query = <<>>) => op.tokens = <<>>
    /\ (op.kind = "score" /\ ~SharesToken(op.query, op.documents[1])) => op.score = 0
    /\ op.kind = "search" =>
          /\ op.documents = <<>> => op.results = <<>>
          /\ \A i \in 1..Len(op.documents) :
                ~SharesToken(op.query, op.documents[i])
                    => op.documents[i].id \notin Ids(op.results)

\* a score computed by a scorer whose average length is 0 (it indexed the
\* empty corpus), for a document that contains the query's token
C15_Witness ==
    /\ op.kind = "score"
    /\ ~op.exc
    /\ sc_calls > 0
    /\ sc.num_docs = 0
    /\ sc.avg_doc_length = FZero
    /\ SharesToken(op.query, op.documents[1])
    /\ op.score = 0

(***************************************************************************)
(* C16.  A malformed answer of the semantic collaborator (not a list, or   *)
(* an item whose title is null) never makes hybrid_search raise: the call  *)
(* returns a result list, with or without reranking.                       *)
(***************************************************************************)
C16_MalformedResponseReturns ==
    (/\ pc = "done"
     /\ \/ sem_resp.kind = "not_a_list"
        \/ /\ sem_resp.kind = "ok"
           /\ \E i \in 1..Len(sem_resp.items) : sem_resp.items[i].title = NoneStr)
    => outcome = "returned"

Arrives(c) == calls[c].pc = "idle" /\ calls'[c].pc # "idle"

\* time.time() - opened_at
Elapsed == clock - cb.opened_at.t

(***************************************************************************)
(* C18.  From CLOSED the breaker moves to OPEN exactly when                *)
(* failure_threshold calls have failed with no successful call in between  *)
(* (a success resets the count): while fewer have failed it is CLOSED, and *)
(* a call that arrives in CLOSED is executed, not rejected.                *)
(***************************************************************************)
C18_OpensAfterThresholdFailures ==
    [][/\ cb'.state = "closed" => streak' < FailureThreshold
       /\ (cb.state = "closed" /\ cb'.state = "open")
             <=> (cb.state = "closed" /\ streak' >= FailureThreshold)
       /\ cb.state = "closed" => cb.failure_count = streak
       /\ \A c \in Callers :
             (cb.state = "closed" /\ Arrives(c))
                 => (calls'[c].pc = "executing" /\ calls'[c].invoked)]_vars

\* the breaker opened for the first time after more failures than the
\* threshold: a success in between had reset the count
C18_Witness ==
    /\ cb.state = "open"
    /\ streak = FailureThreshold
    /\ cb.stats.state_changes = 1
    /\ cb.stats.successful_calls >= 1
    /\ cb.stats.failed_calls > FailureThreshold

(***************************************************************************)
(* C19.  A call that arrives while the breaker is OPEN and fewer than      *)
(* timeout_seconds have passed since it opened is rejected without the     *)
(* protected function being invoked: it gets the fallback's result when a  *)
(* fallback is configured and CircuitBreakerOpenError when none is,        *)
(* rejected_calls grows by one and the state stays OPEN.                   *)
(***************************************************************************)
C19_OpenRejectsCalls ==
    [][\A c \in Callers :
          (/\ Arrives(c)
           /\ cb.state = "open"
           /\ cb.opened_at.set
           /\ Elapsed < TimeoutSeconds)
          => /\ calls'[c].pc = "done"
             /\ ~calls'[c].invoked
             /\ calls'[c].outcome = (IF cb.fallback THEN "fallback" ELSE "open_error")
             /\ cb'.stats.rejected_calls = cb.stats.rejected_calls + 1
             /\ cb'.state = "open"]_vars

\* two calls rejected with the fallback's result, the circuit still open and
\* inside its timeout
C19_Witness ==
    /\ cb.state = "open"
    /\ Elapsed < TimeoutSeconds
    /\ cb.fallback
    /\ cb.stats.rejected_calls = 2
    /\ \E c \in Callers :
          /\ calls[c].pc = "done"
          /\ ~calls[c].invoked
          /\ calls[c].outcome = "fallback"

(***************************************************************************)
(* C20.  The breaker leaves OPEN for HALF_OPEN only in a step where a call *)
(* arrives at least timeout_seconds after the circuit opened, and that     *)
(* call is executed; every such call moves it to HALF_OPEN; the only other *)
(* way out of OPEN is reset().                                             *)
(***************************************************************************)
C20_HalfOpenOnlyAfterTimeout ==
    [][/\ (cb.state = "open" /\ cb'.state = "half_open")
             => \E c \in Callers :
                    /\ Arrives(c)
                    /\ Elapsed >= TimeoutSeconds
                    /\ calls'[c].pc = "executing"
                    /\ calls'[c].invoked
       /\ \A c \in Callers :
             (cb.state = "open" /\ Arrives(c) /\ Elapsed >= TimeoutSeconds)
                 => (cb'.state = "half_open" /\ calls'[c].pc = "executing")
       /\ (cb.state = "open" /\ cb'.state = "closed") => resets' = resets + 1]_vars

\* the circuit is HALF_OPEN with the call that found the timeout over in
\* progress, after an earlier call was rejected
C20_Witness ==
    /\ cb.state = "half_open"
    /\ cb.half_open_calls = 1
    /\ cb.success_count = 0
    /\ cb.stats.rejected_calls >= 1
    /\ cb.stats.state_changes = 2
    /\ \E c \in Callers : calls[c].pc = "executing"

\* no call is between its admission and the end of the protected function
NoCallInFlight == \A c \in Callers : calls[c].pc # "executing"

\* the step counts a failure of the protected function
CountsFailure == cb'.stats.failed_calls = cb.stats.failed_calls + 1

(***************************************************************************)
(* C21.  Whenever no call is in flight, total_calls is the sum of          *)
(* successful_calls, failed_calls and rejected_calls, after any sequence   *)
(* of calls in any state.                                                  *)
(***************************************************************************)
C21_StatsAddUp ==
    NoCallInFlight
        => cb.stats.total_calls =
              cb.stats.successful_calls + cb.stats.failed_calls
                  + cb.stats.rejected_calls

(***************************************************************************)
(* C27.  In HALF_OPEN a failed call moves the breaker back to OPEN and     *)
(* restarts the timeout; the breaker moves from HALF_OPEN to CLOSED, but   *)
(* for reset(), only when success_threshold calls admitted during the      *)
(* current HALF_OPEN period have succeeded; and when it closes,            *)
(* failure_count, success_count and half_open_calls are 0.                 *)
(***************************************************************************)
C27_HalfOpenRecovery ==
    [][/\ (cb.state = "half_open" /\ CountsFailure)
             => (cb'.state = "open" /\ cb'.opened_at = At(clock))
       /\ (cb.state = "half_open" /\ cb'.state = "closed" /\ resets' = resets)
             => period_successes' >= SuccessThreshold
       /\ (cb.state # "closed" /\ cb'.state = "closed")
             => /\ cb'.failure_count = 0
                /\ cb'.success_count = 0
                /\ cb'.half_open_calls = 0]_vars

(***************************************************************************)
(* C28.  Under any interleaving of concurrent calls half_open_calls stays  *)
(* between 0 and half_open_max_calls in every reachable state, and at most *)
(* half_open_max_calls calls admitted in HALF_OPEN are in flight at once.  *)
(***************************************************************************)
C28_HalfOpenCallsInRange ==
    /\ 0 <= cb.half_open_calls
    /\ cb.half_open_calls <= HalfOpenMaxCalls
    /\ Cardinality({c \in Callers :
                       calls[c].pc = "executing" /\ calls[c].period # 0})
          <= HalfOpenMaxCalls

(***************************************************************************)
(* C29.  Every call admitted while the breaker is HALF_OPEN gives its slot *)
(* back when it completes, whatever its outcome (success, counted failure, *)
(* excluded exception): once all admitted calls have completed, a          *)
(* HALF_OPEN breaker has no slot taken, so that it cannot stay HALF_OPEN   *)
(* rejecting every call.                                                   *)
(***************************************************************************)
C29_SlotGivenBack ==
    (cb.state = "half_open" /\ NoCallInFlight) => cb.half_open_calls = 0

\* the statistics of a snapshot are those of its own documents: the count,
\* and every document's length under its id
StatisticsOfDocuments(s) ==
    s.index_initialized =>
        /\ s.bm25.num_docs = Len(s.indexed_documents)
        /\ \A i \in 1..Len(s.indexed_documents) :
              LET document == s.indexed_documents[i]
              IN  /\ document.id \in DOMAIN s.bm25.doc_lengths
                  /\ s.bm25.doc_lengths[document.id]
                        = Len(tokenize(document.content.chars))
                  /\ \A t \in Range(tokenize(document.content.chars)) :
                        t \in DOMAIN s.bm25.idf_scores

(***************************************************************************)
(* C23.  Within one hybrid_search call fusion starts only after both       *)
(* branches have finished: the step that fuses finds the semantic and the  *)
(* keyword task done, and what it fuses are the lists they left.           *)
(***************************************************************************)
C23_FusionAfterBothBranches ==
    [][(pc = "gather" /\ pc' = "done")
          => /\ sem_st = "done"
             /\ kw_st = "done"
             /\ sem_resp # NoResp
             /\ kw_snapshot # <<>>
             /\ outcome' = "returned"
                   => fused_results'
                        = fuse_results(semantic_results.val, keyword_results.val, <<>>)]_vars

\* a call returned a fusion of a semantic and a keyword list, both non-empty
C23_Witness ==
    /\ Returned
    /\ semantic_results.val # <<>>
    /\ keyword_results.val # <<>>
    /\ Len(fused_results) >= 2

RecencyOf(id) ==
    ResultOf(mcall.out, id).relevance_factors["rerank_factors"].recency

(***************************************************************************)
(* C25.  Fusion returns exactly one result for each distinct document id   *)
(* that occurs in the semantic, keyword or graph list and none for any     *)
(* other id; every returned result has source = hybrid, and the list is in *)
(* non-increasing order of fused score.                                    *)
(***************************************************************************)
C25_FusionOneResultPerId ==
    mcall.kind = "fuse" =>
        /\ Ids(mcall.out) = Ids(mcall.semantic) \cup Ids(mcall.keyword) \cup Ids(mcall.graph)
        /\ Len(mcall.out) = Cardinality(Ids(mcall.out))
        /\ \A i \in 1..Len(mcall.out) : mcall.out[i].source = "hybrid"
        /\ NonIncreasing(mcall.out)

(***************************************************************************)
(* C26.  In rerank a result whose metadata has no timestamp, or one that   *)
(* cannot be parsed, gets recency 0 and the timestamp makes rerank raise   *)
(* nothing; a timestamp that parses gives 0.15 when its age is under 30    *)
(* days, 0.05 when under 90 days, and 0 otherwise.                         *)
(***************************************************************************)
C26_RecencyByAge ==
    mcall.kind = "rerank" =>
        /\ mcall.exc => \E i \in 1..Len(mcall.semantic) : mcall.semantic[i].title = NoneStr
        /\ ~mcall.exc =>
              \A i \in 1..Len(mcall.semantic) :
                  LET result == mcall.semantic[i]
                      age_days == mcall.today - result.metadata["timestamp"].day
                  IN  RecencyOf(result.id) =
                         IF "timestamp" \notin DOMAIN result.metadata THEN 0
                         ELSE IF ~result.metadata["timestamp"].ok THEN 0
                         ELSE IF age_days < RecentDays THEN RecentBonus
                         ELSE IF age_days < OlderDays THEN OlderBonus
                         ELSE 0

\* refine has returned a response
Refined == cag.pc = "done"

\* the change of confidence of a recorded stage
StageChange(stage) == FAbs(FSub(stage.confidence_after, stage.confidence_before))

(***************************************************************************)
(* C22.  refine improves low-confidence responses: for an initial          *)
(* confidence below 0.7, whatever the critics answer, the returned         *)
(* final_confidence is at least the initial confidence and at least one    *)
(* stage is recorded (total_stages > 0).                                   *)
(***************************************************************************)
C22_RefineImprovesLowConfidence ==
    (Refined /\ FLess(cag.response.initial_confidence, LowConfidence))
        => /\ FGeq(cag.response.final_confidence, cag.response.initial_confidence)
           /\ cag.response.total_stages > 0

(***************************************************************************)
(* C30.  refine is multi-stage: the loop goes on to a further stage when   *)
(* fewer than max_stages stages have run, the target is not met and the    *)
(* stage just finished changed the confidence by at least 0.01; it ends    *)
(* early only on the target (the loop's test, or a confidence that has     *)
(* reached it) or on convergence (a change below 0.01); and no more than   *)
(* max_stages stages are ever recorded.                                    *)
(***************************************************************************)
C30_RefineIsMultiStage ==
    /\ Len(cag.stages) <= cag.max_stages
    /\ cag.pc \in {"verify", "done"} =>
          \/ Len(cag.stages) = cag.max_stages
          \/ cag.stop = "target"
          \/ FGeq(cag.current_confidence, ConfidenceTarget)
          \/ /\ cag.stages # <<>>
             /\ FLess(StageChange(cag.stages[Len(cag.stages)]), ConvergenceDelta)

=============================================================================
